---- MODULE Spec2Model ----
(***************************************************************************)
(* Signal & news publishing consumer of signalBot.                         *)
(*                                                                         *)
(* Two consumers work over one shared MongoDB store: the long-running loop *)
(* consumer (src/src/db.js, startSignalConsumer.tick) and the single-tick  *)
(* HTTP handler (src/api/signal-form.js, handler).  Every store call and   *)
(* every transport call is one atomic step; a consumer may be interleaved  *)
(* with the other one, with the clock and with failures between any two of *)
(* its steps.  Time is counted in hours.                                   *)
(***************************************************************************)
EXTENDS Integers, Sequences, FiniteSets, TLC

(* ---------------------------------------------------------------------- *)
(* Program constants (hours)                                               *)
(* ---------------------------------------------------------------------- *)
PremiumWindow == 24
FreeWindow == 168
NewsWindow == 1
MaxRetries == 3
LoopLimit == 10
HandlerLimit == 20
\* Math.max(10000, intervalMs), milliseconds
FloorMs == 10000
\* SIGNAL_POLL_INTERVAL_MS || '60000', as the characters parseInt reads
DefaultInterval == <<"6", "0", "0", "0", "0">>
\* NEWS_PUBLISH_INTERVAL_MINUTES || '60', as the characters parseInt reads
DefaultNewsInterval == <<"6", "0">>
\* let backoff = 1000, milliseconds
FirstBackoff == 1000
\* the longest delay a Node timer takes (TIMEOUT_MAX); any other delay is set to 1
TimeoutMax == 2147483647

(* ---------------------------------------------------------------------- *)
(* Bounds of the model                                                     *)
(* ---------------------------------------------------------------------- *)
\* the latest expiry a producer gives an item: later than every instant of Times
Never == 1000
\* a news item may be posted again after a revert; posts per item are capped
MaxNewsSends == 2

\* the instants at which the clock is observed: they realise the differences
\* 0 (inside every window) and 24 (the premium window exactly, past the news window)
Times == {0, 24}

NULL == -1

Procs == {"c1", "c2"}
SignalIds == {"s1", "s2"}
NewsIds == {"n1"}
Types == {"premium", "free", "news"}

VARIABLES
  env,        \* process environment: is PREMIUM_CHANNEL_ID set, SIGNAL_POLL_INTERVAL_MS
  kind,       \* kind[p]: "loop" (db.js tick), "handler" (signal-form.js), "none" (not started)
  running,    \* running[p]: the flag the SIGINT handler of a loop consumer clears
  clock,      \* wall clock (new Date())
  sigAttr,    \* producer-written fields of each signal (never written here)
  signals,    \* consumer-written fields of each signal document
  newsAttr,   \* producer-written fields of each news item
  news,       \* consumer-written fields of each news document
  publishLog, \* signal_publish_log: last_published per type, NULL if none
  failureLog, \* telegram_signal_logs rows
  lostRecords,\* history: failure records whose write failed (error swallowed)
  sendLog,    \* sendLog[i]: the times at which the transport accepted a message for i
  cs,         \* cs[p]: locals of consumer p's tick (pc, batch, now, ...)
  faulted,    \* history: some store or transport call has failed
  ticks,      \* history: ticks started so far, saturating at 2
  won,        \* history: successful claims of an item since it was last pending
  call        \* a call of a pure function taken alone: its arguments and its result

vars == <<env, kind, running, clock, sigAttr, signals, newsAttr, news, publishLog,
          failureLog, lostRecords, sendLog, cs, faulted, ticks, won, call>>

\* what no step of a tick writes
config == <<env, kind, running, sigAttr, newsAttr, call>>

(* ---------------------------------------------------------------------- *)
(* Initial store contents                                                  *)
(* ---------------------------------------------------------------------- *)
\* is_premium is "true", "false" or "unset" (field missing); entry_price, stop_loss
\* and take_profit tell whether the field (or its short form entry, stop, take) is there
Sig(prem, entry, gen, exp) ==
  [is_premium |-> prem, entry_price |-> entry, stop_loss |-> TRUE, take_profit |-> TRUE,
   generated_at |-> gen, expires_at |-> exp]

\* the producers' inserts the model starts from
Populations ==
  { [s1 |-> Sig("true", TRUE, 2, Never),  s2 |-> Sig("true", TRUE, 1, Never),
     n1 |-> [created_at |-> 0, expires_at |-> Never]],
    [s1 |-> Sig("true", TRUE, 1, 1),      s2 |-> Sig("true", TRUE, 2, 0),
     n1 |-> [created_at |-> 0, expires_at |-> 24]],
    [s1 |-> Sig("true", FALSE, 1, Never),
     s2 |-> [Sig("unset", TRUE, 1, Never) EXCEPT !.take_profit = FALSE],
     n1 |-> [created_at |-> 0, expires_at |-> Never]],
    [s1 |-> [Sig("unset", TRUE, 1, 24) EXCEPT !.stop_loss = FALSE],
     s2 |-> Sig("false", TRUE, 2, Never),
     n1 |-> [created_at |-> 0, expires_at |-> 0]] }

NewSignal ==
  [status |-> "pending", claimed_at |-> NULL, last_telegram_message_id |-> NULL]

NewNews ==
  [status |-> "pending"]

\* scheduled: pending invocations of tick (timers); delay: the delay of the last
\* timer set, in milliseconds; results: the handler's result list; claimed
\* (history): the items this handler invocation has claimed; attempt, backoff:
\* the locals of updateSignalDocumentWithRetry; slept (history): the delays it
\* has waited, in milliseconds
Idle ==
  [pc |-> "idle", batch |-> <<>>, now |-> NULL, message |-> NULL,
   sentNow |-> NULL, attempt |-> 0, newsItem |-> "none",
   scheduled |-> 0, delay |-> NULL, results |-> <<>>, claimed |-> {},
   backoff |-> NULL, slept |-> <<>>]

\* the values of SIGNAL_POLL_INTERVAL_MS tried, as character sequences; <<>> is
\* the variable unset (or empty)
IntervalSettings ==
  { <<>>, <<"5", "0", "0", "0">>, <<"9", "0", "0", "0", "0">>, <<"2", "0", "s">>,
    <<"-", "5">>, <<"a", "b", "c">> }

\* the store and the processes right after startSignalConsumer: tick() is called once
InitStore(envs, kinds, pops) ==
  /\ env \in envs
  /\ kind \in kinds
  /\ running = [p \in Procs |-> TRUE]
  /\ clock = 0
  /\ \E pop \in pops :
       /\ sigAttr = [s \in SignalIds |-> pop[s]]
       /\ newsAttr = [n \in NewsIds |-> pop[n]]
  /\ signals = [s \in SignalIds |-> NewSignal]
  /\ news = [n \in NewsIds |-> NewNews]
  /\ publishLog = [t \in Types |-> NULL]
  /\ failureLog = {}
  /\ lostRecords = {}
  /\ sendLog = [i \in SignalIds \cup NewsIds |-> <<>>]
  /\ cs = [p \in Procs |->
            IF kind[p] = "loop" THEN [Idle EXCEPT !.scheduled = 1] ELSE Idle]
  /\ faulted = FALSE
  /\ ticks = 0
  /\ won = [i \in SignalIds \cup NewsIds |-> 0]

\* no pure function is being called alone
NoCall == [fn |-> "none"]

Init ==
  /\ InitStore([PREMIUM_CHANNEL_ID : BOOLEAN, SIGNAL_POLL_INTERVAL_MS : {<<>>}],
               {[c1 |-> "loop", c2 |-> "loop"], [c1 |-> "loop", c2 |-> "handler"]},
               Populations)
  /\ call = NoCall

(* ---------------------------------------------------------------------- *)
(* Pure helpers                                                            *)
(* ---------------------------------------------------------------------- *)
Min(a, b) == IF a < b THEN a ELSE b

\* sig.is_premium ? 'premium' : 'free'
TypeOf(s) == IF sigAttr[s].is_premium = "true" THEN "premium" ELSE "free"

\* { status: 'pending', is_premium: { $ne: false }, expires_at: { $gt: now } }
PendingFilter(s, t) ==
  /\ signals[s].status = "pending"
  /\ sigAttr[s].is_premium # "false"
  /\ sigAttr[s].expires_at > t

\* mutant: the batch sorted newest first, .sort({ generated_at: -1 })
FetchPending_NewestFirst(t, limit) ==
  LET S == {s \in SignalIds : PendingFilter(s, t)}
      n == Cardinality(S)
      orders == {q \in [1..n -> S] :
                   /\ \A i, j \in 1..n : i # j => q[i] # q[j]
                   /\ \A i, j \in 1..n :
                        i < j => sigAttr[q[i]].generated_at >= sigAttr[q[j]].generated_at}
  IN {SubSeq(q, 1, Min(limit, n)) : q \in orders}

\* .sort({ generated_at: 1 }): the documents of S by ascending key, documents
\* of equal key in either order
RECURSIVE SortAscending(_, _)
SortAscending(S, key) ==
  IF S = {} THEN {<<>>}
  ELSE LET first == {d \in S : \A e \in S : key[d] <= key[e]}
       IN UNION {{<<d>> \o q : q \in SortAscending(S \ {d}, key)} : d \in first}

\* mutant: the cursor without .limit(limit)
SortLimit_Unlimited(S, key, limit) == SortAscending(S, key)

\* .sort({ generated_at: 1 }).limit(limit).toArray()
SortLimit(S, key, limit) ==
  {SubSeq(q, 1, Min(limit, Len(q))) : q \in SortAscending(S, key)}

\* fetchPendingSignals: the matching documents, oldest first, cut at limit
FetchPending(t, limit) ==
  SortLimit({s \in SignalIds : PendingFilter(s, t)},
            [s \in SignalIds |-> sigAttr[s].generated_at], limit)

\* mutant: the claim update without its status condition
ClaimFilter_NoStatus(doc) == TRUE

\* mutant: the claim also takes over a document left in sending
ClaimFilter_OrSending(doc) == doc.status \in {"pending", "sending"}

\* mutant: the claim takes every document that is not in flight
ClaimFilter_NotSending(doc) == doc.status # "sending"

\* claimFilter = { _id: sigRaw._id, status: 'pending' }
ClaimFilter(doc) == doc.status = "pending"

\* { _id: newsItem._id, status: { $in: ['pending', null] } }; producers insert
\* news with status 'pending'
NewsClaimFilter(doc) == doc.status = "pending"

\* mutant: the basic validation left out
HasEntry_Unchecked(s) == TRUE

\* if (!sig.entry_price && !sig.entry)
HasEntry(s) == sigAttr[s].entry_price

\* const chatId = sig.is_premium ? premiumChatId : freeChatId, with
\* FREE_CHANNEL_ID unset, so that freeChatId = PREMIUM_CHANNEL_ID
ChatIdSet(s) == env.PREMIUM_CHANNEL_ID

\* message.message_id: the transport gives every message an id of its own
MessageId(i, k) == 10 * (CHOOSE j \in 1..3 : <<"s1", "s2", "n1">>[j] = i) + k

FreshMessageId(i) == MessageId(i, Len(sendLog[i]) + 1)

NewsFilter(n, t) == news[n].status = "pending" /\ newsAttr[n].expires_at > t

\* mutant: findOne with { sort: { created_at: 1 } }
FindOneNewest_Ascending(S, key) == {n \in S : \A m \in S : key[n] <= key[m]}

\* findOne(filter, { sort: { created_at: -1 } }): a document of S with the
\* greatest key
FindOneNewest(S, key) == {n \in S : \A m \in S : key[m] <= key[n]}

\* findOne({ status: { $in: ['pending', null] }, expires_at: { $gt: now } },
\*         { sort: { created_at: -1 } }): the newest matching item
NewsCandidates(t) ==
  FindOneNewest({n \in NewsIds : NewsFilter(n, t)},
                [n \in NewsIds |-> newsAttr[n].created_at])

Sends(i) == Len(sendLog[i])

Bump(k) == Min(k + 1, 2)

\* a JavaScript number: an integer or NaN
Num(v) == [nan |-> FALSE, val |-> v]

NaN == [nan |-> TRUE, val |-> 0]

IsDigit(c) == c \in {"0", "1", "2", "3", "4", "5", "6", "7", "8", "9"}

DigitVal(c) ==
  CHOOSE d \in 0..9 : <<"0", "1", "2", "3", "4", "5", "6", "7", "8", "9">>[d + 1] = c

RECURSIVE DigitsValue(_, _)
\* the value of the longest prefix of digits of str, read after acc
DigitsValue(str, acc) ==
  IF str = <<>> \/ ~IsDigit(Head(str)) THEN acc
  ELSE DigitsValue(Tail(str), 10 * acc + DigitVal(Head(str)))

\* parseInt(str, 10): an optional sign, then the longest prefix of digits; NaN
\* when there is no digit to read
ParseInt(str) ==
  LET neg == str # <<>> /\ Head(str) = "-"
      body == IF neg THEN Tail(str) ELSE str
  IN IF body = <<>> \/ ~IsDigit(Head(body)) THEN NaN
     ELSE Num(IF neg THEN 0 - DigitsValue(body, 0) ELSE DigitsValue(body, 0))

\* intervalMs = parseInt(process.env.SIGNAL_POLL_INTERVAL_MS || '60000', 10)
IntervalMs ==
  ParseInt(IF env.SIGNAL_POLL_INTERVAL_MS = <<>> THEN DefaultInterval
           ELSE env.SIGNAL_POLL_INTERVAL_MS)

\* Math.max(a, b): NaN as soon as an argument is NaN
MathMax(a, b) ==
  IF a.nan \/ b.nan THEN NaN ELSE Num(IF a.val >= b.val THEN a.val ELSE b.val)

\* setTimeout(f, d): a delay that is not a number in 1..TIMEOUT_MAX is set to 1
TimerDelay(d) == IF d.nan \/ d.val < 1 \/ d.val > TimeoutMax THEN 1 ELSE d.val

\* the publish windows in hours, the news interval at its default
Window(type) ==
  IF type = "premium" THEN PremiumWindow
  ELSE IF type = "free" THEN FreeWindow ELSE NewsWindow

\* mutant: the comparison made strict
JsGe_Strict(a, b) == ~a.nan /\ ~b.nan /\ a.val > b.val

\* a >= b on JavaScript numbers: false as soon as an operand is NaN
JsGe(a, b) == ~a.nan /\ ~b.nan /\ a.val >= b.val

\* newsIntervalMin = parseInt(process.env.NEWS_PUBLISH_INTERVAL_MINUTES || '60', 10)
NewsIntervalMin(setting) ==
  ParseInt(IF setting = <<>> THEN DefaultNewsInterval ELSE setting)

\* the right-hand side of the comparison, in minutes: 24 * 3600 * 1000 ms,
\* 7 * 24 * 3600 * 1000 ms, newsIntervalMin * 60 * 1000 ms
WindowMinutes(type, setting) ==
  IF type = "premium" THEN Num(60 * PremiumWindow)
  ELSE IF type = "free" THEN Num(60 * FreeWindow)
  ELSE NewsIntervalMin(setting)

\* let allowed = true; if (last) allowed = (now - lastDate) >= window; times in
\* minutes, setting the value of NEWS_PUBLISH_INTERVAL_MINUTES
AllowedAt(type, last, now, setting) ==
  last = NULL \/ JsGe(Num(now - last), WindowMinutes(type, setting))

\* mutant: the cadence check left out
Allowed_Always(type, last, t) == TRUE

\* mutant: a missing ledger entry read as "not allowed"
Allowed_NeedsEntry(type, last, t) == last # NULL /\ t - last >= Window(type)

\* the cadence check of a tick, on times in hours, NEWS_PUBLISH_INTERVAL_MINUTES unset
Allowed(type, last, t) ==
  AllowedAt(type, IF last = NULL THEN NULL ELSE 60 * last, 60 * t, <<>>)

(* ---------------------------------------------------------------------- *)
(* Control flow shared by the two consumers                                *)
(* ---------------------------------------------------------------------- *)
Cur(p) == Head(cs[p].batch)

\* `continue`, or the end of the per-item try/catch: on to the next candidate,
\* and to the news attempt after the last one
NextItem(p) ==
  cs' = [cs EXCEPT ![p] =
           [@ EXCEPT !.batch = Tail(@),
                     !.pc = IF Tail(cs[p].batch) = <<>> THEN "news" ELSE "claim",
                     !.now = IF kind[p] = "loop" THEN NULL ELSE @,
                     !.message = NULL, !.sentNow = NULL, !.attempt = 0,
                     !.backoff = NULL, !.slept = <<>>]]

\* mutant: the tick returns without setting the next timer
Finally_NoReschedule(p, timers) == [Idle EXCEPT !.scheduled = timers]

\* mutant: a timer is set at both ends of the tick
Finally_Twice(p, timers) ==
  [Idle EXCEPT !.scheduled = timers + 2,
               !.delay = TimerDelay(MathMax(Num(FloorMs), IntervalMs))]

\* finally { setTimeout(tick, Math.max(10000, intervalMs)) }: the locals are gone
\* and one more timer is pending
Finally(p, timers) ==
  [Idle EXCEPT !.scheduled = timers + 1,
               !.delay = TimerDelay(MathMax(Num(FloorMs), IntervalMs))]

\* the tick returns (loop: through its finally; handler: response sent)
EndTick(p) ==
  cs' = [cs EXCEPT ![p] = IF kind[p] = "loop" THEN Finally(p, cs[p].scheduled) ELSE Idle]

Goto(p, label) == cs' = [cs EXCEPT ![p].pc = label]

Fault == faulted' = TRUE

NoFault == UNCHANGED faulted

\* mutant: the guard of tick ignored
Stopped_Never(p) == FALSE

\* if (!running) return
Stopped(p) == ~running[p]

\* await client.close() in the SIGINT handler: the loop consumer's store client is closed
ClientClosed(p) == ~running[p]

\* a store call of consumer p rejects; on a closed client that is the close, not
\* a failure of the store
StoreFault(p) == faulted' = (faulted \/ ~ClientClosed(p))

(* ---------------------------------------------------------------------- *)
(* Loop consumer: startSignalConsumer.tick (src/src/db.js)                 *)
(* ---------------------------------------------------------------------- *)
\* if (!running) return; signals = await fetchPendingSignals(signalsCol, { limit: 10 })
tick_fetch(p) ==
  /\ kind[p] = "loop" /\ cs[p].pc = "idle"
  /\ cs[p].scheduled >= 1 /\ ~Stopped(p)
  /\ ticks' = Bump(ticks)
  /\ \/ /\ \E b \in FetchPending(clock, LoopLimit) :
             cs' = [cs EXCEPT ![p].batch = b, ![p].scheduled = @ - 1,
                              ![p].delay = NULL,
                              ![p].pc = IF b = <<>> THEN "news" ELSE "claim"]
        /\ NoFault
     \/ \* the store is unreachable: caught at the tick boundary, next tick scheduled
        /\ cs' = [cs EXCEPT ![p] = Finally(p, cs[p].scheduled - 1)]
        /\ StoreFault(p)
  /\ UNCHANGED <<config, clock, signals, news, publishLog, failureLog, lostRecords, sendLog, won>>

\* claimRes = await signalsCol.findOneAndUpdate(claimFilter, claimUpdate, ...)
\* followed by the basic validation of the claimed document
tick_claim(p) ==
  /\ kind[p] = "loop" /\ cs[p].pc = "claim"
  /\ LET s == Cur(p) IN
     \/ /\ ClaimFilter(signals[s])
        /\ signals' = [signals EXCEPT ![s].status = "sending", ![s].claimed_at = clock]
        /\ won' = [won EXCEPT ![s] = Bump(@)]
        /\ IF HasEntry(s)
           THEN cs' = [cs EXCEPT ![p].pc = "getPublishLog", ![p].now = clock]
           ELSE NextItem(p)
        /\ NoFault
     \/ \* someone else claimed or status changed
        /\ ~ClaimFilter(signals[s])
        /\ NextItem(p)
        /\ UNCHANGED <<signals, won>> /\ NoFault
     \/ \* the claim call throws outside the per-item try: the tick is aborted
        /\ EndTick(p) /\ StoreFault(p)
        /\ UNCHANGED <<signals, won>>
  /\ UNCHANGED <<config, clock, news, publishLog, failureLog, lostRecords, sendLog, ticks>>

\* const last = await getPublishLog(publishCol, type); ... allowed
tick_getPublishLog(p) ==
  /\ kind[p] = "loop" /\ cs[p].pc = "getPublishLog"
  /\ LET type == TypeOf(Cur(p)) IN
     \/ /\ Goto(p, IF Allowed(type, publishLog[type], cs[p].now) THEN "send" ELSE "defer")
        /\ NoFault
     \/ /\ NextItem(p) /\ StoreFault(p)
  /\ UNCHANGED <<config, clock, signals, news, publishLog, failureLog, lostRecords, sendLog, ticks, won>>

\* mutant: the deferred signal is handed back to the queue
Defer_Requeue(doc) ==
  IF doc.status = "sending" THEN [doc EXCEPT !.status = "pending"] ELSE doc

\* { _id, status: 'sending' }, { $set: { status: 'deferred', deferred_at: now } }
Defer(doc) ==
  IF doc.status = "sending" THEN [doc EXCEPT !.status = "deferred"] ELSE doc

\* updateOne({ _id, status: 'sending' }, { $set: { status: 'deferred', deferred_at: now } })
tick_defer(p) ==
  /\ kind[p] = "loop" /\ cs[p].pc = "defer"
  /\ LET s == Cur(p) IN
     \/ /\ signals' = [signals EXCEPT ![s] = Defer(@)]
        /\ NoFault
     \/ \* 'Failed to mark deferred' is logged and swallowed
        /\ UNCHANGED signals /\ StoreFault(p)
  /\ NextItem(p)
  /\ UNCHANGED <<config, clock, news, publishLog, failureLog, lostRecords, sendLog, ticks, won>>

\* sendSignalToPremium: chatId check, bot.telegram.sendMessage, const now = new Date()
sendSignalToPremium_send(p) ==
  /\ kind[p] = "loop" /\ cs[p].pc = "send"
  /\ LET s == Cur(p) IN
     \/ \* throw new Error('PREMIUM_CHANNEL_ID not set')
        /\ ~ChatIdSet(s)
        /\ NextItem(p)
        /\ UNCHANGED sendLog /\ NoFault
     \/ /\ ChatIdSet(s)
        /\ sendLog' = [sendLog EXCEPT ![s] = Append(@, clock)]
        /\ cs' = [cs EXCEPT ![p].pc = "commit", ![p].message = FreshMessageId(s),
                            ![p].sentNow = clock, ![p].attempt = 0,
                            ![p].backoff = FirstBackoff]
        /\ NoFault
     \/ /\ ChatIdSet(s)
        /\ NextItem(p)
        /\ UNCHANGED sendLog /\ Fault
  /\ UNCHANGED <<config, clock, signals, news, publishLog, failureLog, lostRecords, ticks, won>>

\* mutant: the commit hands the signal back to the queue
Commit_Requeue(doc, when, mid) ==
  [doc EXCEPT !.status = "pending", !.last_telegram_message_id = mid]

\* the $set of the commit: status active, sent_at, last_telegram_message_id
Commit(doc, when, mid) ==
  [doc EXCEPT !.status = "active", !.last_telegram_message_id = mid]

\* mutant: the retry waits after its last attempt too, before it throws
RetryCatch_AlwaysSleeps(c, maxRetries) ==
  [c EXCEPT !.attempt = @ + 1,
            !.slept = Append(@, c.backoff),
            !.backoff = 2 * @,
            !.pc = IF c.attempt + 1 >= maxRetries THEN "logFailure" ELSE "commit"]

\* catch (err) of updateSignalDocumentWithRetry: attempt += 1; if (attempt >=
\* maxRetries) throw err; await the backoff; backoff *= 2
RetryCatch(c, maxRetries) ==
  IF c.attempt + 1 >= maxRetries
  THEN [c EXCEPT !.attempt = @ + 1, !.pc = "logFailure"]
  ELSE [c EXCEPT !.attempt = @ + 1,
                 !.slept = Append(@, c.backoff),
                 !.backoff = 2 * @]

\* updateSignalDocumentWithRetry(signalsCol, filter, update, 3): one attempt
sendSignalToPremium_commit(p) ==
  /\ kind[p] = "loop" /\ cs[p].pc = "commit"
  /\ LET s == Cur(p) IN
     \/ /\ signals' = [signals EXCEPT ![s] = Commit(@, cs[p].sentNow, cs[p].message)]
        /\ Goto(p, "setPublishLog")
        /\ NoFault
     \/ \* attempt += 1; if (attempt >= maxRetries) throw err; else back off and retry
        /\ cs' = [cs EXCEPT ![p] = RetryCatch(@, MaxRetries)]
        /\ UNCHANGED signals /\ StoreFault(p)
  /\ UNCHANGED <<config, clock, news, publishLog, failureLog, lostRecords, sendLog, ticks, won>>

\* await setPublishLog(publishCol, type, now), its error swallowed
sendSignalToPremium_setPublishLog(p) ==
  /\ kind[p] = "loop" /\ cs[p].pc = "setPublishLog"
  /\ \/ /\ publishLog' = [publishLog EXCEPT ![TypeOf(Cur(p))] = cs[p].sentNow]
        /\ NoFault
     \/ /\ UNCHANGED publishLog /\ StoreFault(p)
  /\ NextItem(p)
  /\ UNCHANGED <<config, clock, signals, news, failureLog, lostRecords, sendLog, ticks, won>>

\* mutant: the failure record written without the message id
FailureRecord_NoMessageId(s, mid) == [signalId |-> s, telegramMessageId |-> NULL]

\* { signalId: sigId, telegramMessageId: message.message_id, error, signalData }
FailureRecord(s, mid) == [signalId |-> s, telegramMessageId |-> mid]

\* failedUpdateCache.add(sigId); await db.logSignalDeliveryFailure({...}), its
\* error swallowed
sendSignalToPremium_logFailure(p) ==
  /\ kind[p] = "loop" /\ cs[p].pc = "logFailure"
  /\ LET rec == FailureRecord(Cur(p), cs[p].message) IN
     \/ /\ failureLog' = failureLog \cup {rec}
        /\ UNCHANGED lostRecords /\ NoFault
     \/ /\ lostRecords' = lostRecords \cup {rec}
        /\ UNCHANGED failureLog /\ Fault
  /\ NextItem(p)
  /\ UNCHANGED <<config, clock, signals, news, publishLog, sendLog, ticks, won>>

(* ---------------------------------------------------------------------- *)
(* Loop consumer: publishNewsIfReady (src/src/db.js)                       *)
(* Every error below is caught and logged by publishNewsIfReady's outer    *)
(* try/catch, after which the tick ends in its finally.                    *)
(* ---------------------------------------------------------------------- *)
\* const now = new Date(); const last = await getPublishLog(publishCol, 'news')
news_getPublishLog(p) ==
  /\ kind[p] = "loop" /\ cs[p].pc = "news"
  /\ \/ /\ IF Allowed("news", publishLog["news"], clock)
           THEN cs' = [cs EXCEPT ![p].pc = "newsFind", ![p].now = clock]
           ELSE EndTick(p)
        /\ NoFault
     \/ /\ EndTick(p) /\ StoreFault(p)
  /\ UNCHANGED <<config, clock, signals, news, publishLog, failureLog, lostRecords, sendLog, ticks, won>>

\* newsCol.findOne({ status: { $in: ['pending', null] }, expires_at: { $gt: now } }, ...)
news_findOne(p) ==
  /\ kind[p] = "loop" /\ cs[p].pc = "newsFind"
  /\ \/ /\ \E n \in NewsCandidates(cs[p].now) :
             cs' = [cs EXCEPT ![p].pc = "newsClaim", ![p].newsItem = n]
        /\ NoFault
     \/ /\ NewsCandidates(cs[p].now) = {}
        /\ EndTick(p) /\ NoFault
     \/ /\ EndTick(p) /\ StoreFault(p)
  /\ UNCHANGED <<config, clock, signals, news, publishLog, failureLog, lostRecords, sendLog, ticks, won>>

\* newsCol.findOneAndUpdate({ _id, status: { $in: ['pending', null] } },
\*                          { $set: { status: 'sending', claimed_at: now } })
news_claim(p) ==
  /\ kind[p] = "loop" /\ cs[p].pc = "newsClaim"
  /\ LET n == cs[p].newsItem IN
     \/ /\ NewsClaimFilter(news[n])
        /\ news' = [news EXCEPT ![n].status = "sending"]
        /\ won' = [won EXCEPT ![n] = Bump(@)]
        /\ Goto(p, "newsSend")
        /\ NoFault
     \/ /\ ~NewsClaimFilter(news[n])
        /\ EndTick(p)
        /\ UNCHANGED <<news, won>> /\ NoFault
     \/ /\ EndTick(p) /\ StoreFault(p)
        /\ UNCHANGED <<news, won>>
  /\ UNCHANGED <<config, clock, signals, publishLog, failureLog, lostRecords, sendLog, ticks>>

\* sendNewsToPremium(claimRes.value)
sendNewsToPremium(p) ==
  /\ kind[p] = "loop" /\ cs[p].pc = "newsSend"
  /\ LET n == cs[p].newsItem IN
     \/ \* 'PREMIUM_CHANNEL_ID not set, skipping news': returns without sending
        /\ ~env.PREMIUM_CHANNEL_ID
        /\ Goto(p, "newsPublish")
        /\ UNCHANGED sendLog /\ NoFault
     \/ /\ env.PREMIUM_CHANNEL_ID
        /\ Sends(n) < MaxNewsSends
        /\ sendLog' = [sendLog EXCEPT ![n] = Append(@, clock)]
        /\ Goto(p, "newsPublish")
        /\ NoFault
     \/ /\ env.PREMIUM_CHANNEL_ID
        /\ Goto(p, "newsRevert")
        /\ UNCHANGED sendLog /\ Fault
  /\ UNCHANGED <<config, clock, signals, news, publishLog, failureLog, lostRecords, ticks, won>>

\* newsCol.updateOne({ _id }, { $set: { status: 'published', published_at: now } })
news_publish(p) ==
  /\ kind[p] = "loop" /\ cs[p].pc = "newsPublish"
  /\ LET n == cs[p].newsItem IN
     \/ /\ news' = [news EXCEPT ![n].status = "published"]
        /\ Goto(p, "newsSetPublishLog")
        /\ NoFault
     \/ /\ Goto(p, "newsRevert")
        /\ UNCHANGED news /\ StoreFault(p)
  /\ UNCHANGED <<config, clock, signals, publishLog, failureLog, lostRecords, sendLog, ticks, won>>

\* publishCol.updateOne({ _id: 'news' }, { $set: { last_published: now } }, { upsert: true })
news_setPublishLog(p) ==
  /\ kind[p] = "loop" /\ cs[p].pc = "newsSetPublishLog"
  /\ \/ /\ publishLog' = [publishLog EXCEPT !["news"] = cs[p].now]
        /\ EndTick(p)
        /\ NoFault
     \/ /\ Goto(p, "newsRevert")
        /\ UNCHANGED publishLog /\ StoreFault(p)
  /\ UNCHANGED <<config, clock, signals, news, failureLog, lostRecords, sendLog, ticks, won>>

\* mutant: the revert without its status condition
Revert_NoStatus(doc, when) == [doc EXCEPT !.status = "pending"]

\* mutant: the failed item parked as 'failed' instead of handed back
Revert_Parked(doc, when) ==
  IF doc.status = "sending"
  THEN [doc EXCEPT !.status = "failed"]
  ELSE doc

\* the $set of the revert, applied when the filter { _id, status: 'sending' } matches
Revert(doc, when) ==
  IF doc.status = "sending"
  THEN [doc EXCEPT !.status = "pending"]
  ELSE doc

\* catch (err): newsCol.updateOne({ _id, status: 'sending' },
\*                                { $set: { status: 'pending', failed_at: now } }); throw err
news_revert(p) ==
  /\ kind[p] = "loop" /\ cs[p].pc = "newsRevert"
  /\ LET n == cs[p].newsItem IN
     \/ /\ news' = [news EXCEPT ![n] = Revert(@, cs[p].now)]
        /\ won' = [won EXCEPT ![n] = IF news'[n].status = "pending" THEN 0 ELSE @]
        /\ NoFault
     \/ /\ UNCHANGED <<news, won>> /\ StoreFault(p)
  /\ EndTick(p)
  /\ UNCHANGED <<config, clock, signals, publishLog, failureLog, lostRecords, sendLog, ticks>>

(* ---------------------------------------------------------------------- *)
(* Single-tick handler (src/api/signal-form.js, handler)                   *)
(* `now` is taken once, before the fetch, and kept for the whole run.      *)
(* ---------------------------------------------------------------------- *)
\* results.push({ id, status, ... })
Push(p, i, st) == Append(cs[p].results, [id |-> i, status |-> st])

\* results.push(...) and then `continue`, or the end of the per-item try/catch
NextItemPush(p, st) ==
  cs' = [cs EXCEPT ![p] =
           [@ EXCEPT !.batch = Tail(@),
                     !.pc = IF Tail(cs[p].batch) = <<>> THEN "news" ELSE "claim",
                     !.message = NULL, !.sentNow = NULL, !.attempt = 0,
                     !.results = Push(p, Cur(p), st)]]

\* const now = new Date(); pending = await signalsCol.find({...}).sort(...).limit(20)
handler_fetch(p) ==
  /\ kind[p] = "handler" /\ cs[p].pc = "idle"
  /\ ticks' = Bump(ticks)
  /\ \/ /\ \E b \in FetchPending(clock, HandlerLimit) :
             cs' = [cs EXCEPT ![p].batch = b, ![p].now = clock,
                              ![p].pc = IF b = <<>> THEN "news" ELSE "claim"]
        /\ NoFault
     \/ \* outer catch: 500 internal_error
        /\ EndTick(p) /\ Fault
  /\ UNCHANGED <<config, clock, signals, news, publishLog, failureLog, lostRecords, sendLog, won>>

\* claimRes = await signalsCol.findOneAndUpdate(claimFilter, { $set: { status:
\* 'sending', claimed_at: claimedAt } }), then the 'no entry' check
handler_claim(p) ==
  /\ kind[p] = "handler" /\ cs[p].pc = "claim"
  /\ LET s == Cur(p) IN
     \/ /\ ClaimFilter(signals[s])
        /\ signals' = [signals EXCEPT ![s].status = "sending", ![s].claimed_at = clock]
        /\ won' = [won EXCEPT ![s] = Bump(@)]
        /\ IF HasEntry(s)
           THEN cs' = [cs EXCEPT ![p].pc = "getPublishLog", ![p].claimed = @ \cup {s}]
           ELSE cs' = [cs EXCEPT ![p] =
                         [@ EXCEPT !.batch = Tail(@),
                                   !.pc = IF Tail(cs[p].batch) = <<>> THEN "news" ELSE "claim",
                                   !.claimed = @ \cup {s},
                                   !.results = Push(p, s, "skipped")]]
        /\ NoFault
     \/ /\ ~ClaimFilter(signals[s])
        /\ NextItem(p)
        /\ UNCHANGED <<signals, won>> /\ NoFault
     \/ \* thrown outside the per-item try: outer catch, 500, the run is over
        /\ EndTick(p) /\ Fault
        /\ UNCHANGED <<signals, won>>
  /\ UNCHANGED <<config, clock, news, publishLog, failureLog, lostRecords, sendLog, ticks>>

\* publishDoc = await publishCol.findOne({ _id: type }); ... allowed
handler_findPublishDoc(p) ==
  /\ kind[p] = "handler" /\ cs[p].pc = "getPublishLog"
  /\ LET type == TypeOf(Cur(p)) IN
     \/ /\ Goto(p, IF Allowed(type, publishLog[type], cs[p].now) THEN "send" ELSE "defer")
        /\ NoFault
     \/ /\ NextItemPush(p, "error") /\ Fault
  /\ UNCHANGED <<config, clock, signals, news, publishLog, failureLog, lostRecords, sendLog, ticks, won>>

\* updateOne({ _id, status: 'sending' }, { $set: { status: 'deferred', deferred_at: now } })
handler_defer(p) ==
  /\ kind[p] = "handler" /\ cs[p].pc = "defer"
  /\ LET s == Cur(p) IN
     \/ /\ signals' = [signals EXCEPT ![s] = Defer(@)]
        /\ NextItemPush(p, "deferred")
        /\ NoFault
     \/ /\ UNCHANGED signals
        /\ NextItemPush(p, "error") /\ Fault
  /\ UNCHANGED <<config, clock, news, publishLog, failureLog, lostRecords, sendLog, ticks, won>>

\* chatId check ('no channel configured'), then bot.telegram.sendMessage
handler_send(p) ==
  /\ kind[p] = "handler" /\ cs[p].pc = "send"
  /\ LET s == Cur(p) IN
     \/ /\ ~ChatIdSet(s)
        /\ NextItemPush(p, "skipped")
        /\ UNCHANGED sendLog /\ NoFault
     \/ /\ ChatIdSet(s)
        /\ sendLog' = [sendLog EXCEPT ![s] = Append(@, clock)]
        /\ cs' = [cs EXCEPT ![p].pc = "commit", ![p].message = FreshMessageId(s)]
        /\ NoFault
     \/ /\ ChatIdSet(s)
        /\ NextItemPush(p, "error")
        /\ UNCHANGED sendLog /\ Fault
  /\ UNCHANGED <<config, clock, signals, news, publishLog, failureLog, lostRecords, ticks, won>>

\* signalsCol.updateOne({ _id }, { $set: { status: 'active', sent_at: new Date(),
\* last_telegram_message_id } }): one attempt, an error goes to the per-item catch
handler_commit(p) ==
  /\ kind[p] = "handler" /\ cs[p].pc = "commit"
  /\ LET s == Cur(p) IN
     \/ /\ signals' = [signals EXCEPT ![s] = Commit(@, clock, cs[p].message)]
        /\ Goto(p, "setPublishLog")
        /\ NoFault
     \/ /\ NextItemPush(p, "error")
        /\ UNCHANGED signals /\ Fault
  /\ UNCHANGED <<config, clock, news, publishLog, failureLog, lostRecords, sendLog, ticks, won>>

\* publishCol.updateOne({ _id: type }, { $set: { last_published: new Date() } }, upsert),
\* then results.push({ status: 'sent' })
handler_setPublishLog(p) ==
  /\ kind[p] = "handler" /\ cs[p].pc = "setPublishLog"
  /\ \/ /\ publishLog' = [publishLog EXCEPT ![TypeOf(Cur(p))] = clock]
        /\ NextItemPush(p, "sent")
        /\ NoFault
     \/ /\ UNCHANGED publishLog
        /\ NextItemPush(p, "error") /\ Fault
  /\ UNCHANGED <<config, clock, signals, news, failureLog, lostRecords, sendLog, ticks, won>>

\* newsPublishDoc = await publishCol.findOne({ _id: 'news' }); ... newsAllowed;
\* an error goes to the outer news catch, after which the response is sent
handler_news_findPublishDoc(p) ==
  /\ kind[p] = "handler" /\ cs[p].pc = "news"
  /\ \/ /\ Goto(p, IF Allowed("news", publishLog["news"], cs[p].now)
                   THEN "newsFind" ELSE "respond")
        /\ NoFault
     \/ /\ Goto(p, "respond") /\ Fault
  /\ UNCHANGED <<config, clock, signals, news, publishLog, failureLog, lostRecords, sendLog, ticks, won>>

\* newsItem = await newsCol.findOne({...}, { sort: { created_at: -1 } })
handler_news_findOne(p) ==
  /\ kind[p] = "handler" /\ cs[p].pc = "newsFind"
  /\ \/ /\ \E n \in NewsCandidates(cs[p].now) :
             cs' = [cs EXCEPT ![p].pc = "newsClaim", ![p].newsItem = n]
        /\ NoFault
     \/ /\ NewsCandidates(cs[p].now) = {}
        /\ Goto(p, "respond") /\ NoFault
     \/ /\ Goto(p, "respond") /\ Fault
  /\ UNCHANGED <<config, clock, signals, news, publishLog, failureLog, lostRecords, sendLog, ticks, won>>

\* newsClaimRes = await newsCol.findOneAndUpdate({ _id, status in [pending, null] }, ...)
handler_news_claim(p) ==
  /\ kind[p] = "handler" /\ cs[p].pc = "newsClaim"
  /\ LET n == cs[p].newsItem IN
     \/ /\ NewsClaimFilter(news[n])
        /\ news' = [news EXCEPT ![n].status = "sending"]
        /\ won' = [won EXCEPT ![n] = Bump(@)]
        /\ cs' = [cs EXCEPT ![p].pc = "newsSend", ![p].claimed = @ \cup {n}]
        /\ NoFault
     \/ /\ ~NewsClaimFilter(news[n])
        /\ Goto(p, "respond")
        /\ UNCHANGED <<news, won>> /\ NoFault
     \/ /\ Goto(p, "respond") /\ Fault
        /\ UNCHANGED <<news, won>>
  /\ UNCHANGED <<config, clock, signals, publishLog, failureLog, lostRecords, sendLog, ticks>>

\* newsMsg = await bot.telegram.sendMessage(premiumChatId, newsText, ...): with
\* PREMIUM_CHANNEL_ID unset the transport rejects the undefined destination
handler_news_send(p) ==
  /\ kind[p] = "handler" /\ cs[p].pc = "newsSend"
  /\ LET n == cs[p].newsItem IN
     \/ /\ env.PREMIUM_CHANNEL_ID
        /\ Sends(n) < MaxNewsSends
        /\ sendLog' = [sendLog EXCEPT ![n] = Append(@, clock)]
        /\ Goto(p, "newsPublish")
        /\ NoFault
     \/ /\ Goto(p, "newsRevert")
        /\ UNCHANGED sendLog /\ Fault
  /\ UNCHANGED <<config, clock, signals, news, publishLog, failureLog, lostRecords, ticks, won>>

\* newsCol.updateOne({ _id }, { $set: { status: 'published', published_at: new Date(), ... } })
handler_news_publish(p) ==
  /\ kind[p] = "handler" /\ cs[p].pc = "newsPublish"
  /\ LET n == cs[p].newsItem IN
     \/ /\ news' = [news EXCEPT ![n].status = "published"]
        /\ Goto(p, "newsSetPublishLog")
        /\ NoFault
     \/ /\ Goto(p, "newsRevert")
        /\ UNCHANGED news /\ Fault
  /\ UNCHANGED <<config, clock, signals, publishLog, failureLog, lostRecords, sendLog, ticks, won>>

\* publishCol.updateOne({ _id: 'news' }, { $set: { last_published: new Date() } }, upsert),
\* then results.push({ type: 'news', status: 'sent' })
handler_news_setPublishLog(p) ==
  /\ kind[p] = "handler" /\ cs[p].pc = "newsSetPublishLog"
  /\ \/ /\ publishLog' = [publishLog EXCEPT !["news"] = clock]
        /\ cs' = [cs EXCEPT ![p].pc = "respond",
                            ![p].results = Push(p, cs[p].newsItem, "sent")]
        /\ NoFault
     \/ /\ Goto(p, "newsRevert")
        /\ UNCHANGED publishLog /\ Fault
  /\ UNCHANGED <<config, clock, signals, news, failureLog, lostRecords, sendLog, ticks, won>>

\* catch (err): newsCol.updateOne({ _id, status: 'sending' }, { $set: { status: 'pending',
\* failed_at: now } }); results.push({ type: 'news', status: 'error' }); an error of
\* the revert goes to the outer news catch, which pushes nothing
handler_news_revert(p) ==
  /\ kind[p] = "handler" /\ cs[p].pc = "newsRevert"
  /\ LET n == cs[p].newsItem IN
     \/ /\ news' = [news EXCEPT ![n] = Revert(@, cs[p].now)]
        /\ won' = [won EXCEPT ![n] = IF news'[n].status = "pending" THEN 0 ELSE @]
        /\ cs' = [cs EXCEPT ![p].pc = "respond", ![p].results = Push(p, n, "error")]
        /\ NoFault
     \/ /\ UNCHANGED <<news, won>>
        /\ Goto(p, "respond") /\ Fault
  /\ UNCHANGED <<config, clock, signals, publishLog, failureLog, lostRecords, sendLog, ticks>>

\* res.status(200).json({ ok: true, processed: results.length, results })
Response(p) ==
  [ok |-> TRUE, processed |-> Len(cs[p].results), results |-> cs[p].results]

\* try { await client.close() } catch (e) {}; return res.status(200).json(...)
handler_respond(p) ==
  /\ kind[p] = "handler" /\ cs[p].pc = "respond"
  /\ EndTick(p)
  /\ UNCHANGED <<config, clock, signals, news, publishLog, failureLog, lostRecords,
                 sendLog, faulted, ticks, won>>

(* ---------------------------------------------------------------------- *)
(* Environment and specification                                           *)
(* ---------------------------------------------------------------------- *)
\* time passes, between any two steps of the consumers
Advance ==
  /\ \E t \in Times : t > clock /\ clock' = t
  /\ UNCHANGED <<config, signals, news, publishLog, failureLog, lostRecords, sendLog, cs, faulted,
                 ticks, won>>

\* the steps of the loop consumers, and the clock
LoopNext ==
  \/ Advance
  \/ \E p \in Procs : tick_fetch(p)
  \/ \E p \in Procs : tick_claim(p)
  \/ \E p \in Procs : tick_getPublishLog(p)
  \/ \E p \in Procs : tick_defer(p)
  \/ \E p \in Procs : sendSignalToPremium_send(p)
  \/ \E p \in Procs : sendSignalToPremium_commit(p)
  \/ \E p \in Procs : sendSignalToPremium_setPublishLog(p)
  \/ \E p \in Procs : sendSignalToPremium_logFailure(p)
  \/ \E p \in Procs : news_getPublishLog(p)
  \/ \E p \in Procs : news_findOne(p)
  \/ \E p \in Procs : news_claim(p)
  \/ \E p \in Procs : sendNewsToPremium(p)
  \/ \E p \in Procs : news_publish(p)
  \/ \E p \in Procs : news_setPublishLog(p)
  \/ \E p \in Procs : news_revert(p)

\* the steps of the handler invocations
HandlerNext ==
  \/ \E p \in Procs : handler_fetch(p)
  \/ \E p \in Procs : handler_claim(p)
  \/ \E p \in Procs : handler_findPublishDoc(p)
  \/ \E p \in Procs : handler_defer(p)
  \/ \E p \in Procs : handler_send(p)
  \/ \E p \in Procs : handler_commit(p)
  \/ \E p \in Procs : handler_setPublishLog(p)
  \/ \E p \in Procs : handler_news_findPublishDoc(p)
  \/ \E p \in Procs : handler_news_findOne(p)
  \/ \E p \in Procs : handler_news_claim(p)
  \/ \E p \in Procs : handler_news_send(p)
  \/ \E p \in Procs : handler_news_publish(p)
  \/ \E p \in Procs : handler_news_setPublishLog(p)
  \/ \E p \in Procs : handler_news_revert(p)
  \/ \E p \in Procs : handler_respond(p)

Next == LoopNext \/ HandlerNext

Spec == Init /\ [][Next]_vars

(* ---------------------------------------------------------------------- *)
(* Shutdown of a loop consumer                                             *)
(* ---------------------------------------------------------------------- *)
\* a timer fires after the signal: tick returns before its try, no timer is set
tick_return(p) ==
  /\ kind[p] = "loop" /\ cs[p].pc = "idle"
  /\ cs[p].scheduled >= 1 /\ Stopped(p)
  /\ cs' = [cs EXCEPT ![p].scheduled = @ - 1]
  /\ UNCHANGED <<config, clock, signals, news, publishLog, failureLog, lostRecords,
                 sendLog, faulted, ticks, won>>

\* process.once('SIGINT', ...): running = false; await client.close()
SIGINT(p) ==
  /\ kind[p] = "loop" /\ running[p]
  /\ running' = [running EXCEPT ![p] = FALSE]
  /\ UNCHANGED <<env, kind, sigAttr, newsAttr, clock, signals, news, publishLog,
                 failureLog, lostRecords, sendLog, cs, faulted, ticks, won, call>>

\* one loop consumer alone (c2 is not started), over every population and
\* every setting of the poll interval
InitShutdown ==
  /\ InitStore([PREMIUM_CHANNEL_ID : BOOLEAN, SIGNAL_POLL_INTERVAL_MS : IntervalSettings],
               {[c1 |-> "loop", c2 |-> "none"]},
               Populations)
  /\ call = NoCall

NextShutdown ==
  \/ LoopNext
  \/ \E p \in Procs : SIGINT(p)
  \/ \E p \in Procs : tick_return(p)

SpecShutdown == InitShutdown /\ [][NextShutdown]_vars

(* ---------------------------------------------------------------------- *)
(* formatSignalMessage (src/src/db.js)                                     *)
(* A field value is a token: "undefined" (field missing), "null", "0" (the *)
(* number zero), "" (the empty string), or another token for any truthy    *)
(* value. A line of the message is its label and the value put into it.    *)
(* ---------------------------------------------------------------------- *)
Truthy(v) == v \notin {"undefined", "null", "0", ""}

\* a || b
Or(a, b) == IF Truthy(a) THEN a ELSE b

Line(tag, value) == [tag |-> tag, value |-> value]

\* the '' pushed before a block of lines
Blank == Line("", "")

\* const direction = sig.signal_type === 'LONG' ? 'BUY (LONG)' : sig.signal_type
\* === 'SHORT' ? 'SELL (SHORT)' : sig.signal_type || 'HOLD'
Direction(sig) ==
  IF sig.signal_type = "LONG" THEN "BUY (LONG)"
  ELSE IF sig.signal_type = "SHORT" THEN "SELL (SHORT)"
  ELSE Or(sig.signal_type, "HOLD")

\* mutant: the confidence line pushed whatever the field
ConfidenceLines_Always(sig) == <<Line("Confidence", sig.confidence_level)>>

\* if (sig.confidence_level !== undefined) lines.push(`*Confidence:* ...%`)
ConfidenceLines(sig) ==
  IF sig.confidence_level # "undefined"
  THEN <<Line("Confidence", sig.confidence_level)>> ELSE <<>>

\* if (sig.risk_reward_ratio !== undefined) lines.push(`*Risk-Reward:* ... : 1`)
RiskRewardLines(sig) ==
  IF sig.risk_reward_ratio # "undefined"
  THEN <<Line("Risk-Reward", sig.risk_reward_ratio)>> ELSE <<>>

\* if (sig.reasoning) lines.push('', `*Reasoning:* ...`)
ReasoningLines(sig) ==
  IF Truthy(sig.reasoning) THEN <<Blank, Line("Reasoning", sig.reasoning)>> ELSE <<>>

\* if (sig.generated_at) lines.push('', `*Generated:* ...`)
GeneratedLines(sig) ==
  IF Truthy(sig.generated_at) THEN <<Blank, Line("Generated", sig.generated_at)>> ELSE <<>>

\* if (sig.expires_at) lines.push(`*Expires:* ...`)
ExpiresLines(sig) ==
  IF Truthy(sig.expires_at) THEN <<Line("Expires", sig.expires_at)>> ELSE <<>>

\* if (Array.isArray(sig.validation_warnings) && sig.validation_warnings.length > 0)
\*   lines.push('', '*Warnings:*'); one bullet line per warning
WarningLines(sig) ==
  LET w == sig.validation_warnings IN
  IF w.kind = "array" /\ Len(w.items) > 0
  THEN <<Blank, Line("Warnings", "")>> \o [k \in 1..Len(w.items) |-> Line("bullet", w.items[k])]
  ELSE <<>>

\* the lines of the message, in order (joined with '\n' by the code)
formatSignalMessage(sig) ==
  <<Line("Header", Or(sig.market_type, "")),
    Line("Pair", Or(sig.pair, "N/A")),
    Line("Direction", Direction(sig)),
    Line("Entry", Or(sig.entry_price, Or(sig.entry, "N/A"))),
    Line("Stop Loss", Or(sig.stop_loss, Or(sig.stop, "N/A"))),
    Line("Take Profit", Or(sig.take_profit, Or(sig.take, "N/A")))>>
  \o ConfidenceLines(sig) \o RiskRewardLines(sig) \o ReasoningLines(sig)
  \o GeneratedLines(sig) \o ExpiresLines(sig) \o WarningLines(sig)
  \o <<Blank, Line("Disclaimer", "Not financial advice. Trade at your own risk.")>>

\* the signal documents the formatter is called on
FormatInputs ==
  [market_type : {"undefined"}, pair : {"undefined"},
   signal_type : {"undefined", "LONG", "SHORT", "SCALP"},
   entry_price : {"undefined", "0", "1.5"}, entry : {"undefined", "1.4"},
   stop_loss : {"undefined", "1.2"}, stop : {"undefined"},
   take_profit : {"undefined", "1.9"}, take : {"undefined"},
   confidence_level : {"undefined", "null", "0", "75"},
   risk_reward_ratio : {"undefined", "2"},
   reasoning : {"undefined", "", "breakout"},
   generated_at : {"undefined", "date"}, expires_at : {"undefined", "date"},
   validation_warnings : {[kind |-> "undefined", items |-> <<>>],
                          [kind |-> "string", items |-> <<>>],
                          [kind |-> "array", items |-> <<>>],
                          [kind |-> "array", items |-> <<"w1", "w2">>]}]

\* text = formatSignalMessage(sig)
formatSignalMessage_call ==
  /\ call.fn = "formatSignalMessage" /\ ~call.done
  /\ call' = [call EXCEPT !.done = TRUE, !.ret = formatSignalMessage(call.sig)]
  /\ UNCHANGED <<env, kind, running, clock, sigAttr, signals, newsAttr, news, publishLog,
                 failureLog, lostRecords, sendLog, cs, faulted, ticks, won>>

(* ---------------------------------------------------------------------- *)
(* The cadence check taken alone, on times in minutes                      *)
(* ---------------------------------------------------------------------- *)
\* the values of NEWS_PUBLISH_INTERVAL_MINUTES tried; <<>> is the variable unset
NewsIntervalSettings == { <<>>, <<"5">>, <<"9", "0">>, <<"a", "b", "c">> }

\* the ages now - last_published tried, around each window
CadenceAges ==
  {0, 4, 5, 6, 59, 60, 61, 89, 90, 91, 1439, 1440, 1441, 10079, 10080, 10081}

CadenceInputs ==
  [type : Types, last : {NULL, 0, 7}, age : CadenceAges, setting : NewsIntervalSettings]

\* allowed = ... for the ledger value last, at now = last + age (now = age when
\* there is no ledger value)
cadenceCheck_call ==
  /\ call.fn = "allowed" /\ ~call.done
  /\ LET a == call.arg
         now == IF a.last = NULL THEN a.age ELSE a.last + a.age
     IN call' = [call EXCEPT !.done = TRUE,
                             !.ret = AllowedAt(a.type, a.last, now, a.setting)]
  /\ UNCHANGED <<env, kind, running, clock, sigAttr, signals, newsAttr, news, publishLog,
                 failureLog, lostRecords, sendLog, cs, faulted, ticks, won>>

\* no consumer runs: one call of a pure function on each of its inputs
(* the queries, each on a collection of its own *)
MaxDocs == 22
DocIds == 1..MaxDocs

\* generated_at of the documents of the collection queried: all different but
\* for documents 1 and 2
DocGeneratedAt == [d \in DocIds |-> IF d = 2 THEN 5 ELSE (d * 5) % 29]

FetchInputs == [n : 0..MaxDocs, limit : {LoopLimit, HandlerLimit}]

\* fetchPendingSignals(signalsCol, { limit }) on a collection of n matching
\* documents
fetchPendingSignals_call ==
  /\ call.fn = "fetchPendingSignals" /\ ~call.done
  /\ \E b \in SortLimit(1..call.arg.n, DocGeneratedAt, call.arg.limit) :
       call' = [call EXCEPT !.done = TRUE, !.ret = b]
  /\ UNCHANGED <<env, kind, running, clock, sigAttr, signals, newsAttr, news, publishLog,
                 failureLog, lostRecords, sendLog, cs, faulted, ticks, won>>

NewsDocIds == 1..3
QueryNow == 10
NewsDoc == [status : {"pending", "published"}, expires_at : {QueryNow, QueryNow + 1},
            created_at : 1..3]
FindOneInputs == [NewsDocIds -> NewsDoc]

\* the filter of the news findOne on a document
NewsDocFilter(doc, t) == doc.status = "pending" /\ doc.expires_at > t

\* newsCol.findOne(filter, { sort: { created_at: -1 } }): a document or null
findOneNews_call ==
  /\ call.fn = "findOne" /\ ~call.done
  /\ LET docs == call.arg
         matching == {n \in NewsDocIds : NewsDocFilter(docs[n], QueryNow)}
         found == FindOneNewest(matching, [n \in NewsDocIds |-> docs[n].created_at])
     IN \/ found = {} /\ call' = [call EXCEPT !.done = TRUE, !.ret = NULL]
        \/ \E n \in found : call' = [call EXCEPT !.done = TRUE, !.ret = n]
  /\ UNCHANGED <<env, kind, running, clock, sigAttr, signals, newsAttr, news, publishLog,
                 failureLog, lostRecords, sendLog, cs, faulted, ticks, won>>

InitCalls ==
  /\ InitStore([PREMIUM_CHANNEL_ID : {TRUE}, SIGNAL_POLL_INTERVAL_MS : {<<>>}],
               {[c1 |-> "none", c2 |-> "none"]},
               {pop \in Populations : pop.s1.generated_at = 2})
  /\ \/ \E sig \in FormatInputs :
          call = [fn |-> "formatSignalMessage", sig |-> sig, done |-> FALSE, ret |-> <<>>]
     \/ \E a \in CadenceInputs :
          call = [fn |-> "allowed", arg |-> a, done |-> FALSE, ret |-> FALSE]
     \/ \E a \in FetchInputs :
          call = [fn |-> "fetchPendingSignals", arg |-> a, done |-> FALSE, ret |-> <<>>]
     \/ \E a \in FindOneInputs :
          call = [fn |-> "findOne", arg |-> a, done |-> FALSE, ret |-> NULL]

NextCalls ==
  \/ formatSignalMessage_call
  \/ cadenceCheck_call
  \/ fetchPendingSignals_call
  \/ findOneNews_call

SpecCalls == InitCalls /\ [][NextCalls]_vars

(* ---------------------------------------------------------------------- *)
(* Vocabulary of the properties                                            *)
(* ---------------------------------------------------------------------- *)
Items == SignalIds \cup NewsIds

Status(i) == IF i \in SignalIds THEN signals[i].status ELSE news[i].status

SignalStages == {"getPublishLog", "defer", "send", "commit", "setPublishLog", "logFailure"}

NewsStages == {"newsSend", "newsPublish", "newsSetPublishLog", "newsRevert"}

\* consumer p has received the claimed document of i and is still processing it
Holds(p, i) ==
  \/ cs[p].pc \in SignalStages /\ Cur(p) = i
  \/ cs[p].pc \in NewsStages /\ cs[p].newsItem = i

Holders(i) == {p \in Procs : Holds(p, i)}

\* consumer q has fetched s in its batch and is about to run the claim on it
AboutToClaim(q, s) == cs[q].pc = "claim" /\ Cur(q) = s

\* i has been claimed and its claimer is through with it
Done(i) == Status(i) # "pending" /\ Holders(i) = {}

Quiet == \A p \in Procs : cs[p].pc = "idle"

CategoryOf(i) == IF i \in SignalIds THEN TypeOf(i) ELSE "news"

HasRecord(s, mid) ==
  \E r \in failureLog : r.signalId = s /\ r.telegramMessageId = mid

(* ---------------------------------------------------------------------- *)
(* C1 - claim exclusivity                                                  *)
(* ---------------------------------------------------------------------- *)
\* C1: of all the consumers that run the claim on an item while it is pending,
\* exactly one receives the claimed document: an item is pending exactly when no
\* claim on it has succeeded since, no item has two successful claims, and at
\* most one consumer holds its claimed document.
C1_ClaimExclusive ==
  \A i \in Items :
    /\ won[i] <= 1
    /\ (Status(i) = "pending") <=> (won[i] = 0)
    /\ Cardinality(Holders(i)) <= 1

\* a consumer holds the claimed signal while the other one, which fetched it as
\* pending too, runs its claim on it
C1_Witness ==
  \E s \in SignalIds : \E p, q \in Procs :
    p # q /\ Holds(p, s) /\ AboutToClaim(q, s) /\ won[s] = 1

(* ---------------------------------------------------------------------- *)
(* C2 - scenario C                                                         *)
(* ---------------------------------------------------------------------- *)
\* no other signal of the category of s was sent: the cadence window of s is open
WindowOpenFor(s) ==
  \A o \in SignalIds \ {s} : TypeOf(o) = TypeOf(s) => Sends(o) = 0

\* C2: with no transport or store failure, the destination configured and the
\* cadence window open, a valid signal is sent at most once whatever the
\* interleaving of the consumers, and exactly once (and stored active) as soon as
\* its claimer is through with it.
C2_ExactlyOneSend ==
  \A s \in SignalIds :
    (~faulted /\ env.PREMIUM_CHANNEL_ID /\ HasEntry(s) /\ WindowOpenFor(s))
      => /\ Sends(s) <= 1
         /\ Done(s) => (Sends(s) = 1 /\ signals[s].status = "active")

\* the signal was sent and committed by one consumer while the other one, whose
\* tick fetched it as pending too, still has its claim on it to run
C2_Witness ==
  \E s \in SignalIds : \E q \in Procs :
    /\ ~faulted /\ env.PREMIUM_CHANNEL_ID /\ HasEntry(s) /\ WindowOpenFor(s)
    /\ Done(s) /\ Sends(s) = 1 /\ AboutToClaim(q, s) /\ ticks = 2

(* ---------------------------------------------------------------------- *)
(* C3 - at most one send per signal                                        *)
(* ---------------------------------------------------------------------- *)
\* C3: whatever fails, the transport send is invoked at most once for a signal.
C3_AtMostOneSend == \A s \in SignalIds : Sends(s) <= 1

\* a signal was sent, its commit retries were exhausted (it is stuck in sending
\* with a failure record), and ticks went on after that
C3_Witness ==
  \E s \in SignalIds :
    /\ Sends(s) = 1 /\ signals[s].status = "sending" /\ Holders(s) = {}
    /\ HasRecord(s, MessageId(s, 1))
    /\ \E p \in Procs : cs[p].pc = "newsFind"

(* ---------------------------------------------------------------------- *)
(* C4 - cadence throttle                                                   *)
(* ---------------------------------------------------------------------- *)
\* the sends of a category: <<item, k>> is the k-th send of the item
SendsOf(type) ==
  {<<i, k>> \in Items \X (1..(MaxNewsSends + 1)) :
     CategoryOf(i) = type /\ k <= Sends(i)}

Apart(a, b) == IF a >= b THEN a - b ELSE b - a

\* C4: any two successful sends of one category are at least its window apart,
\* for every interleaving of the consumers; stated here for the runs in which no
\* store or transport call fails at all.
C4_SendsWindowApart ==
  ~faulted =>
    \A type \in Types : \A x, y \in SendsOf(type) :
      x # y => Apart(sendLog[x[1]][x[2]], sendLog[y[1]][y[2]]) >= Window(type)

(* ---------------------------------------------------------------------- *)
(* C5 - status transitions                                                 *)
(* ---------------------------------------------------------------------- *)
SignalSteps == {<<"pending", "sending">>, <<"sending", "active">>, <<"sending", "deferred">>}

NewsSteps == {<<"pending", "sending">>, <<"sending", "published">>}

\* C5 as stated: every status change is pending->sending, sending->active/published
\* or sending->deferred (so that active/published is never left).
C5_OnlyForwardSteps ==
  [][/\ \A s \in SignalIds :
          signals'[s].status # signals[s].status
            => <<signals[s].status, signals'[s].status>> \in SignalSteps
     /\ \A n \in NewsIds :
          news'[n].status # news[n].status
            => <<news[n].status, news'[n].status>> \in NewsSteps]_vars

\* C5 as amended: the same, except that a claimed news item whose send or
\* publish write failed goes back sending->pending; active/published is never left.
C5_StepsWithNewsRevert ==
  [][/\ \A s \in SignalIds :
          signals'[s].status # signals[s].status
            => <<signals[s].status, signals'[s].status>> \in SignalSteps
     /\ \A n \in NewsIds :
          news'[n].status # news[n].status
            => <<news[n].status, news'[n].status>>
                 \in NewsSteps \cup {<<"sending", "pending">>}]_vars

\* a signal is active, another one deferred, and a news item is published while a
\* consumer whose publish-log write failed is about to run the revert on it
C5_Witness ==
  /\ \E s \in SignalIds : signals[s].status = "active"
  /\ \E s \in SignalIds : signals[s].status = "deferred"
  /\ \E n \in NewsIds : \E p \in Procs :
       news[n].status = "published" /\ cs[p].pc = "newsRevert" /\ cs[p].newsItem = n

(* ---------------------------------------------------------------------- *)
(* C6 - active/published only after a confirmed send                       *)
(* ---------------------------------------------------------------------- *)
\* C6: an active signal and a published news item have been sent.
C6_TerminalImpliesSent ==
  /\ \A s \in SignalIds : signals[s].status = "active" => Sends(s) >= 1
  /\ \A n \in NewsIds : news[n].status = "published" => Sends(n) >= 1

(* ---------------------------------------------------------------------- *)
(* C7 - expired items are never claimed                                    *)
(* ---------------------------------------------------------------------- *)
\* C7: a signal is claimed only at a time before its expires_at, and a signal
\* already expired when the consumers start is left untouched.
C7_NoExpiredClaim ==
  \A s \in SignalIds :
    /\ signals[s].claimed_at # NULL => sigAttr[s].expires_at > signals[s].claimed_at
    /\ sigAttr[s].expires_at <= 0 => (signals[s] = NewSignal /\ Sends(s) = 0)

(* ---------------------------------------------------------------------- *)
(* C8 - scenario A                                                         *)
(* ---------------------------------------------------------------------- *)
PremiumValid(s) ==
  sigAttr[s].is_premium = "true" /\ HasEntry(s) /\ sigAttr[s].expires_at > clock

\* exactly one tick has run, without failure, and is through with its batch
OneCleanTick ==
  /\ ticks = 1 /\ ~faulted /\ env.PREMIUM_CHANNEL_ID
  /\ \A p \in Procs : cs[p].batch = <<>>

\* C8: from an empty ledger and two pending valid unexpired premium signals, one
\* tick without failure (and without a day passing after its send) sends the older
\* one once, leaves it active with the premium ledger entry at the publish time,
\* and leaves the newer one deferred and unsent.
C8_ScenarioA ==
  \A older, newer \in SignalIds :
    (/\ PremiumValid(older) /\ PremiumValid(newer)
     /\ sigAttr[older].generated_at < sigAttr[newer].generated_at
     /\ OneCleanTick
     /\ Sends(older) = 1 => clock - sendLog[older][1] < PremiumWindow)
      => /\ Sends(older) = 1
         /\ signals[older].status = "active"
         /\ signals[older].last_telegram_message_id = MessageId(older, 1)
         /\ publishLog["premium"] >= sendLog[older][1]
         /\ publishLog["premium"] <= clock
         /\ signals[newer].status = "deferred"
         /\ Sends(newer) = 0

\* one clean tick over two valid premium signals has finished its batch
C8_Witness ==
  \E older, newer \in SignalIds :
    /\ PremiumValid(older) /\ PremiumValid(newer)
    /\ sigAttr[older].generated_at < sigAttr[newer].generated_at
    /\ OneCleanTick
    /\ signals[older].status = "active" /\ signals[newer].status = "deferred"

(* ---------------------------------------------------------------------- *)
(* C9 - scenario D                                                         *)
(* ---------------------------------------------------------------------- *)
\* the send of s succeeded, no commit attempt did, and the claimer is through
CommitLost(s) == Sends(s) >= 1 /\ signals[s].status # "active" /\ Holders(s) = {}

LoopConsumersOnly == \A p \in Procs : kind[p] = "loop"

\* C9: in the loop consumer, when the send succeeded and every commit attempt
\* failed, a failure record with the signal's id and the returned message id is
\* written (the failure log accepting the write), and the status is not set back
\* to pending: the signal stays in sending.
C9_FailureRecorded ==
  (LoopConsumersOnly /\ lostRecords = {})
    => \A s \in SignalIds :
         CommitLost(s) => (HasRecord(s, MessageId(s, 1)) /\ signals[s].status = "sending")

\* a loop consumer sent a signal, lost its three commit attempts, wrote the failure
\* record and went on to the next candidate of its batch
C9_Witness ==
  /\ LoopConsumersOnly /\ lostRecords = {}
  /\ \E s \in SignalIds : \E p \in Procs :
       /\ CommitLost(s) /\ HasRecord(s, MessageId(s, 1))
       /\ cs[p].pc = "claim" /\ Cur(p) # s /\ ticks = 1

(* ---------------------------------------------------------------------- *)
(* C10 - a message that went out is never lost                             *)
(* ---------------------------------------------------------------------- *)
\* C10, as the result the claimer of a sent signal leaves behind, loop consumer or
\* handler: the signal is active with the returned message id, or a failure record
\* holds that id; stated here for the runs in which no failure-record write fails.
C10_SendAccounted ==
  lostRecords = {}
    => \A s \in SignalIds :
         (Sends(s) >= 1 /\ Holders(s) = {})
           => \/ /\ signals[s].status = "active"
                 /\ signals[s].last_telegram_message_id = MessageId(s, 1)
              \/ HasRecord(s, MessageId(s, 1))

(* ---------------------------------------------------------------------- *)
(* C11 - a ledger failure after the commit                                 *)
(* ---------------------------------------------------------------------- *)
\* C11: an item committed active/published keeps its status and is never claimed
\* or sent again, whatever happens to the ledger update that follows the commit
\* (signals: the error is swallowed; news: the revert does not apply).
C11_TerminalKept ==
  [][/\ \A s \in SignalIds :
          signals[s].status = "active"
            => (signals'[s] = signals[s] /\ sendLog'[s] = sendLog[s])
     /\ \A n \in NewsIds :
          news[n].status = "published"
            => (news'[n] = news[n] /\ sendLog'[n] = sendLog[n])]_vars

\* the ledger write failed after the commit of a signal and after the publish of
\* a news item (no ledger entry, although both claimers are through), and a later
\* tick is at work
C11_Witness ==
  /\ \E s \in SignalIds :
       /\ signals[s].status = "active" /\ Holders(s) = {}
       /\ publishLog[TypeOf(s)] = NULL
  /\ \E n \in NewsIds :
       /\ news[n].status = "published" /\ Holders(n) = {} /\ Sends(n) = 1
       /\ publishLog["news"] = NULL
  /\ ticks = 2 /\ \E p \in Procs : cs[p].pc = "newsFind"

(* ---------------------------------------------------------------------- *)
(* C12 - an error on one candidate does not abort the batch                *)
(* ---------------------------------------------------------------------- *)
\* C12: whatever fails on the current candidate, a consumer whose batch holds
\* further candidates goes on with them: a step leaves the batch as it is or
\* moves to its next candidate, and never drops the remaining ones.
C12_BatchNeverAborted ==
  [][\A p \in Procs :
       Len(cs[p].batch) > 1 => cs'[p].batch \in {cs[p].batch, Tail(cs[p].batch)}]_vars

(* ---------------------------------------------------------------------- *)
(* C13 - the loop reschedules itself                                       *)
(* ---------------------------------------------------------------------- *)
\* C13: while a loop consumer is not shut down, exactly one invocation of tick is
\* either running or scheduled: after every tick, however it ended, exactly one
\* next tick is scheduled.
C13_OneTickScheduled ==
  \A p \in Procs :
    (kind[p] = "loop" /\ running[p])
      => cs[p].scheduled = (IF cs[p].pc = "idle" THEN 1 ELSE 0)

\* a tick failed at tick level (store unreachable at the fetch: nothing was
\* claimed) and the next tick is scheduled
C13_Witness ==
  \E p \in Procs :
    /\ kind[p] = "loop" /\ running[p] /\ cs[p].pc = "idle"
    /\ cs[p].scheduled = 1 /\ cs[p].delay # NULL
    /\ faulted /\ ticks = 1
    /\ \A i \in Items : Status(i) = "pending" /\ won[i] = 0

(* ---------------------------------------------------------------------- *)
(* C14 - the 10 s floor                                                    *)
(* ---------------------------------------------------------------------- *)
\* C14: for every setting of the poll interval, the delay of the timer that
\* starts the next tick is at least 10000 ms.
C14_DelayAtLeastFloor ==
  \A p \in Procs : cs[p].delay # NULL => cs[p].delay >= FloorMs

(* ---------------------------------------------------------------------- *)
(* C15 - ticks after the shutdown signal                                   *)
(* ---------------------------------------------------------------------- *)
\* C15: a tick that starts after the shutdown signal does nothing (no fetch, no
\* claim, no send, no write) and sets no timer: a stopped consumer that is idle
\* stays idle, its pending timers only run out, and the store stays as it is.
C15_StoppedTickDoesNothing ==
  [][\A p \in Procs :
       (kind[p] = "loop" /\ ~running[p] /\ cs[p].pc = "idle")
         => /\ cs'[p].pc = "idle"
            /\ cs'[p].scheduled <= cs[p].scheduled
            /\ UNCHANGED <<signals, news, publishLog, failureLog, sendLog>>]_vars

\* the consumer is shut down, its last timer has fired and returned, and a pending
\* unexpired signal is left in the store
C15_Witness ==
  \E p \in Procs :
    /\ kind[p] = "loop" /\ ~running[p] /\ cs[p].pc = "idle" /\ cs[p].scheduled = 0
    /\ ticks >= 1
    /\ \E s \in SignalIds : PendingFilter(s, clock)

(* ---------------------------------------------------------------------- *)
(* C16 - the tick in flight starts no new item                             *)
(* ---------------------------------------------------------------------- *)
\* consumer p's claim on its current candidate succeeds in this step
ClaimsSignal(p) ==
  /\ cs[p].pc = "claim"
  /\ signals[Cur(p)].status = "pending" /\ signals'[Cur(p)].status = "sending"

ClaimsNews(p) ==
  /\ cs[p].pc = "newsClaim"
  /\ news[cs[p].newsItem].status = "pending" /\ news'[cs[p].newsItem].status = "sending"

\* C16: after the shutdown signal the tick in flight claims no further candidate
\* of its batch and no news item.
C16_NoClaimAfterSignal ==
  [][\A p \in Procs :
       (kind[p] = "loop" /\ ~running[p]) => (~ClaimsSignal(p) /\ ~ClaimsNews(p))]_vars

(* ---------------------------------------------------------------------- *)
(* C17 - the commit of the item in flight                                  *)
(* ---------------------------------------------------------------------- *)
\* C17: with no failure of the store or the transport, shutdown signal or not, a
\* signal that was sent ends stored as active once its claimer is through.
C17_CommitCompletes ==
  ~faulted =>
    \A s \in SignalIds :
      (Sends(s) >= 1 /\ Holders(s) = {}) => signals[s].status = "active"


(* ---------------------------------------------------------------------- *)
(* C18 - the handler's result list                                         *)
(* ---------------------------------------------------------------------- *)
ResultStatuses == {"sent", "deferred", "skipped", "error"}

\* the positions in the result list of p that report item i
EntriesOf(p, i) == {k \in 1..Len(cs[p].results) : cs[p].results[k].id = i}

\* C18: when the handler responds with its result list, every item that this
\* invocation claimed appears in the list exactly once, with a status among sent,
\* deferred, skipped and error, no item that it did not claim appears, and the
\* reported processed count is the length of the list.
C18_ResultsMatchClaims ==
  \A p \in Procs :
    (kind[p] = "handler" /\ cs[p].pc = "respond") =>
      /\ \A i \in cs[p].claimed : Cardinality(EntriesOf(p, i)) = 1
      /\ \A k \in 1..Len(Response(p).results) :
           /\ Response(p).results[k].id \in cs[p].claimed
           /\ Response(p).results[k].status \in ResultStatuses
      /\ Response(p).processed = Len(Response(p).results)

(* ---------------------------------------------------------------------- *)
(* C19 - critical fields                                                   *)
(* ---------------------------------------------------------------------- *)
CriticalFields(s) ==
  sigAttr[s].entry_price /\ sigAttr[s].stop_loss /\ sigAttr[s].take_profit

\* C19: a signal that lacks any of entry_price, stop_loss and take_profit is never
\* sent to a channel.
C19_IncompleteNeverSent ==
  \A s \in SignalIds : Sends(s) >= 1 => CriticalFields(s)

(* ---------------------------------------------------------------------- *)
(* C20 - news posted once                                                  *)
(* ---------------------------------------------------------------------- *)
\* C20: a news item whose send has succeeded is never posted a second time, also
\* when the write that marks it published fails after the send.
C20_NewsPostedOnce ==
  \A n \in NewsIds : Sends(n) <= 1


(* ---------------------------------------------------------------------- *)
(* C22 - the bounded retry of the commit                                   *)
(* ---------------------------------------------------------------------- *)
\* the waits the retry has made after k failed attempts, the last attempt excepted
WaitsAfter(k) == SubSeq(<<1000, 2000>>, 1, Min(k, 2))

\* C22: the commit after a send makes at most 3 update attempts, stops at the
\* first one that succeeds, has waited 1 s after the first failure and 2 s after
\* the second and nothing after the third, and after three failures raises the
\* error (the failure record is next); its attempts are bounded whatever fails.
C22_BoundedRetry ==
  \A p \in Procs :
    kind[p] = "loop" =>
      /\ cs[p].attempt <= MaxRetries
      /\ cs[p].pc = "commit" =>
           cs[p].attempt < MaxRetries /\ cs[p].slept = WaitsAfter(cs[p].attempt)
      /\ cs[p].pc = "setPublishLog" =>
           /\ cs[p].attempt < MaxRetries /\ cs[p].slept = WaitsAfter(cs[p].attempt)
           /\ signals[Cur(p)].status = "active"
      /\ cs[p].pc = "logFailure" =>
           cs[p].attempt = MaxRetries /\ cs[p].slept = <<1000, 2000>>

\* the commit has failed three times and the retry has raised the error
C22_Witness ==
  \E p \in Procs :
    kind[p] = "loop" /\ cs[p].pc = "logFailure" /\ cs[p].slept = <<1000, 2000>>


(* ---------------------------------------------------------------------- *)
(* C23 - deferral                                                          *)
(* ---------------------------------------------------------------------- *)
Range(q) == {q[k] : k \in 1..Len(q)}

\* consumer p takes the step that follows its cadence check on the candidate
\* it claimed, the window being closed
Defers(p) == cs[p].pc = "defer" /\ cs'[p] # cs[p]

\* C23: when a consumer has claimed a signal and the window of its category has
\* not elapsed, then, the store accepting the write, the signal goes from sending
\* to deferred, nothing is sent for it, the ledger is left as it is, and the
\* signal is not among the candidates left to the same tick.
C23_DeferredNotSent ==
  [][\A p \in Procs :
       (Defers(p) /\ ~faulted') =>
         /\ ~Allowed(TypeOf(Cur(p)), publishLog[TypeOf(Cur(p))], cs[p].now)
         /\ signals[Cur(p)].status = "sending"
         /\ signals'[Cur(p)].status = "deferred"
         /\ sendLog'[Cur(p)] = <<>>
         /\ publishLog' = publishLog
         /\ Cur(p) \notin Range(cs'[p].batch)]_vars

\* a signal has been deferred against a ledger entry of its category
C23_Witness ==
  \E s \in SignalIds :
    /\ signals[s].status = "deferred" /\ ~faulted
    /\ publishLog[TypeOf(s)] # NULL /\ Sends(s) = 0


(* ---------------------------------------------------------------------- *)
(* C25 - every send is followed by a ledger write                          *)
(* ---------------------------------------------------------------------- *)
\* consumer p is through with item i in this step
Leaves(p, i) == Holds(p, i) /\ ~(Holds(p, i))'

LastSend(i) == sendLog[i][Len(sendLog[i])]

\* C25: when a consumer is through with an item for which the transport accepted
\* a message, the ledger entry of the item's category exists and is not earlier
\* than that send, whether the item's own commit succeeded or not; only a step
\* in which the ledger write itself is refused is excepted.
C25_SendThenLedger ==
  [][\A p \in Procs : \A i \in Items :
       (Leaves(p, i) /\ Sends(i) >= 1 /\ cs[p].pc # "setPublishLog") =>
         /\ publishLog'[CategoryOf(i)] # NULL
         /\ publishLog'[CategoryOf(i)] >= LastSend(i)]_vars


(* ---------------------------------------------------------------------- *)
(* C26 - a ledger entry stands for a sent and stored item                  *)
(* ---------------------------------------------------------------------- *)
Terminal(i) == Status(i) \in {"active", "published"}

\* C26: the ledger starting empty, a category that has a last_published has at
\* least one item that was sent and is stored as active (signals) or published
\* (news).
C26_LedgerImpliesStored ==
  \A c \in Types :
    publishLog[c] # NULL =>
      \E i \in Items : CategoryOf(i) = c /\ Terminal(i) /\ Sends(i) >= 1


(* ---------------------------------------------------------------------- *)
(* The producer's monitoring (signal_bot), the other writer of status      *)
(* ---------------------------------------------------------------------- *)
\* signal_bot updates status to expired for a signal that has timed out
signal_bot_expire(s) ==
  /\ clock >= sigAttr[s].expires_at
  /\ signals[s].status \notin {"expired"}
  /\ signals' = [signals EXCEPT ![s].status = "expired"]
  /\ UNCHANGED <<config, clock, news, publishLog, failureLog, lostRecords, sendLog,
                 cs, faulted, ticks, won>>

\* one loop consumer and the producer's monitoring on the same collection
InitMonitored ==
  /\ InitStore([PREMIUM_CHANNEL_ID : BOOLEAN, SIGNAL_POLL_INTERVAL_MS : {<<>>}],
               {[c1 |-> "loop", c2 |-> "none"]},
               Populations)
  /\ call = NoCall

NextMonitored ==
  \/ LoopNext
  \/ \E s \in SignalIds : signal_bot_expire(s)

SpecMonitored == InitMonitored /\ [][NextMonitored]_vars

(* ---------------------------------------------------------------------- *)
(* C27 - status writes are conditional                                     *)
(* ---------------------------------------------------------------------- *)
\* the status a consumer's write to status `to` expects to find
ExpectedBefore(to) == IF to = "sending" THEN "pending" ELSE "sending"

\* C27: every write of a consumer that changes an item's status finds the
\* expected status (pending for the claim; sending for commit, defer and
\* revert): a commit never overwrites a status someone else has set after the
\* claim.
C27_ConditionalWrites ==
  [][\A i \in Items :
       (Status(i)' # Status(i) /\ Status(i)' # "expired") =>
         Status(i) = ExpectedBefore(Status(i)')]_vars


(* ---------------------------------------------------------------------- *)
(* C28 - a signal without entry                                            *)
(* ---------------------------------------------------------------------- *)
\* C28: a signal that has neither entry_price nor entry is never sent, and once
\* claimed it stays in sending whatever ticks follow: no consumer returns it to
\* pending, defers it or marks it active.
C28_NoEntryStuck ==
  \A s \in SignalIds :
    ~sigAttr[s].entry_price =>
      /\ Sends(s) = 0
      /\ signals[s].status \in {"pending", "sending"}
      /\ won[s] >= 1 => signals[s].status = "sending"

\* a signal without entry was claimed, and a later tick has come and gone
C28_Witness ==
  \E s \in SignalIds :
    /\ ~sigAttr[s].entry_price /\ signals[s].status = "sending"
    /\ ticks >= 2 /\ Quiet


(* ---------------------------------------------------------------------- *)
(* C29 - at most one news publish per tick, gated by the news ledger       *)
(* ---------------------------------------------------------------------- *)
\* the order of the positions of a tick's news attempt
NewsRank(pc) ==
  CASE pc = "news" -> 1
    [] pc = "newsFind" -> 2
    [] pc = "newsClaim" -> 3
    [] pc = "newsSend" -> 4
    [] pc = "newsPublish" -> 5
    [] pc = "newsSetPublishLog" -> 6
    [] pc = "newsRevert" -> 7
    [] pc \in {"respond", "idle"} -> 8
    [] OTHER -> 0

C30_NewsAttemptEveryTick ==
  [][\A p \in Procs :
       (cs[p].pc # "idle" /\ cs'[p].pc = "idle") => NewsRank(cs[p].pc) >= 1]_vars


(* ---------------------------------------------------------------------- *)
(* C21 - the formatter's lines                                             *)
(* ---------------------------------------------------------------------- *)
Count(out, tag) == Cardinality({k \in 1..Len(out) : out[k].tag = tag})

Formatted == call.fn = "formatSignalMessage" /\ call.done

\* C21: the message of every signal has its Direction, Entry, Stop Loss and
\* Take Profit lines and ends with the disclaimer, also when every optional field
\* is missing; it has a Confidence, Risk-Reward, Reasoning or Warnings line only
\* when the signal has the corresponding field.
C21_FormatterLines ==
  Formatted =>
    LET out == call.ret
        sig == call.sig
    IN /\ \A tag \in {"Direction", "Entry", "Stop Loss", "Take Profit", "Disclaimer"} :
            Count(out, tag) = 1
       /\ out[Len(out)].tag = "Disclaimer"
       /\ Count(out, "Confidence") >= 1 => sig.confidence_level # "undefined"
       /\ Count(out, "Risk-Reward") >= 1 => sig.risk_reward_ratio # "undefined"
       /\ Count(out, "Reasoning") >= 1 => sig.reasoning # "undefined"
       /\ Count(out, "Warnings") >= 1 => sig.validation_warnings.kind # "undefined"

\* a signal with none of its fields has been formatted: the six fixed lines, a
\* blank line and the disclaimer
C21_Witness ==
  /\ Formatted
  /\ \A f \in DOMAIN call.sig \ {"validation_warnings"} : call.sig[f] = "undefined"
  /\ call.sig.validation_warnings.kind = "undefined"
  /\ Len(call.ret) = 8

(* ---------------------------------------------------------------------- *)
(* C24 - the cadence check                                                 *)
(* ---------------------------------------------------------------------- *)
\* the window of a category in minutes: 24 h, 7 d, and for news the configured
\* number of minutes (60 when nothing is configured)
StatedWindow(type, setting) ==
  IF type = "premium" THEN 24 * 60
  ELSE IF type = "free" THEN 7 * 24 * 60
  ELSE IF setting = <<>> THEN 60
  ELSE DigitsValue(setting, 0)

Checked == call.fn = "allowed" /\ call.done

\* the news interval is configured as a number, or not configured
IntervalReadable(a) ==
  a.type = "news" => (a.setting = <<>> \/ \A k \in 1..Len(a.setting) : IsDigit(a.setting[k]))

\* C24: the cadence check answers allowed exactly when the category has no
\* last_published or the age of last_published is at least the window of the
\* category (24 h premium, 7 d free, the configured news interval, 60 min by
\* default); at an age equal to the window the answer is allowed.
C24_AllowedIffWindowElapsed ==
  (Checked /\ IntervalReadable(call.arg)) =>
    LET a == call.arg IN
    call.ret <=> (a.last = NULL \/ a.age >= StatedWindow(a.type, a.setting))

\* the check has answered allowed at an age equal to the window, for a news
\* interval that is configured
C24_Witness ==
  /\ Checked /\ call.ret
  /\ call.arg.type = "news" /\ call.arg.setting # <<>> /\ IntervalReadable(call.arg)
  /\ call.arg.last # NULL
  /\ call.arg.age = StatedWindow(call.arg.type, call.arg.setting)


(* ---------------------------------------------------------------------- *)
(* C31 - a news item whose send failed                                     *)
(* ---------------------------------------------------------------------- *)
\* consumer p takes its revert step on a news item it still has in sending
Reverts(p) ==
  /\ cs[p].pc = "newsRevert" /\ cs'[p] # cs[p]
  /\ news[cs[p].newsItem].status = "sending"

SendFails(p) ==
  /\ cs[p].pc = "send" /\ cs'[p] # cs[p]
  /\ ChatIdSet(Cur(p)) /\ sendLog' = sendLog

\* C32: after the send of a claimed signal has failed the signal is not marked
\* active and can be tried again: it is left in a status that the fetch of a
\* later tick selects.
C32_FailedSignalRetryable ==
  [][\A p \in Procs : \A s \in SignalIds :
       (SendFails(p) /\ s = Cur(p)) =>
         /\ signals'[s].status # "active"
         /\ signals'[s].status = "pending"]_vars

\* C33: within one tick the signals are claimed in non-decreasing generated_at
\* order, oldest first, and no more than 20 signals are claimed in a tick: the
\* batch a tick fetches is sorted by generated_at and holds at most 20
\* documents, each once, and a tick claims the documents of its batch in the
\* order of the batch
NonDecreasing(q, key) == \A i, j \in 1..Len(q) : i < j => key[q[i]] <= key[q[j]]

C33_OldestFirstAtMostTwenty ==
  /\ (call.fn = "fetchPendingSignals" /\ call.done) =>
       /\ Len(call.ret) <= 20
       /\ Len(call.ret) = Min(call.arg.limit, call.arg.n)
       /\ NonDecreasing(call.ret, DocGeneratedAt)
       /\ \A i, j \in 1..Len(call.ret) : i # j => call.ret[i] # call.ret[j]
       /\ \A i \in 1..Len(call.ret) : \A d \in 1..call.arg.n :
            DocGeneratedAt[d] < DocGeneratedAt[call.ret[i]] =>
              \E j \in 1..i : call.ret[j] = d
  /\ \A p \in Procs :
       /\ Len(cs[p].batch) <= 20
       /\ NonDecreasing(cs[p].batch, [s \in SignalIds |-> sigAttr[s].generated_at])

C33_Witness ==
  /\ call.fn = "fetchPendingSignals" /\ call.done
  /\ call.arg.n > HandlerLimit /\ call.arg.limit = HandlerLimit
  /\ Len(call.ret) = HandlerLimit
  /\ \E i \in 1..(HandlerLimit - 1) : call.ret[i] = 2 /\ call.ret[i + 1] = 1
  /\ DocGeneratedAt[call.ret[2]] < DocGeneratedAt[call.ret[HandlerLimit]]

\* C34 as stated: the news item chosen is the oldest eligible one, the pending
\* unexpired item of the earliest creation time
Eligible(docs) == {n \in NewsDocIds : NewsDocFilter(docs[n], QueryNow)}

Accounted(s) ==
  \/ signals[s].status = "active"
  \/ \E r \in failureLog \cup lostRecords : r.signalId = s

C35_HandlerAsLoopTick ==
  \A s \in SignalIds : (Sends(s) > 0 /\ Holders(s) = {}) => Accounted(s)

(* ---------------------------------------------------------------------- *)
(* A consumer process that dies in the middle of a tick                    *)
(* ---------------------------------------------------------------------- *)
\* the process of consumer p is killed while tick awaits a call on an item it
\* has claimed and not yet committed: its locals and its timers are gone, the
\* store keeps what was written; the item it held is remembered
crash(p) ==
  /\ kind[p] = "loop"
  /\ \A q \in Procs : cs[q].pc # "crashed"
  /\ \/ /\ cs[p].pc \in {"getPublishLog", "defer", "send", "commit", "logFailure"}
        /\ signals[Cur(p)].status = "sending"
        /\ cs' = [cs EXCEPT ![p] = [Idle EXCEPT !.pc = "crashed", !.batch = <<Cur(p)>>]]
     \/ /\ cs[p].pc \in {"newsSend", "newsPublish", "newsRevert"}
        /\ news[cs[p].newsItem].status = "sending"
        /\ cs' = [cs EXCEPT ![p] = [Idle EXCEPT !.pc = "crashed",
                                                !.newsItem = cs[p].newsItem]]
  /\ UNCHANGED <<config, clock, signals, news, publishLog, failureLog, lostRecords,
                 sendLog, faulted, ticks, won>>

\* two loop consumers on one store, either of which may be killed
InitCrash ==
  /\ InitStore([PREMIUM_CHANNEL_ID : BOOLEAN, SIGNAL_POLL_INTERVAL_MS : {<<>>}],
               {[c1 |-> "loop", c2 |-> "loop"]},
               Populations)
  /\ call = NoCall

NextCrash ==
  \/ LoopNext
  \/ \E p \in Procs : crash(p)

SpecCrash == InitCrash /\ [][NextCrash]_vars

\* consumer p was killed while it held item i, and i is still in sending
Orphan(p, i) ==
  /\ cs[p].pc = "crashed"
  /\ cs[p].batch = <<i>> \/ cs[p].newsItem = i
  /\ Status(i) = "sending"

\* C36: an item left in sending by a consumer that crashed after the claim is
\* never un-claimed: no step of any consumer moves it back to pending (or
\* changes its status at all), claims it again, or sends it
C36_NoUnclaimAfterCrash ==
  [][\A p \in Procs : \A i \in Items :
       Orphan(p, i) =>
         /\ (IF i \in SignalIds THEN signals'[i] = signals[i] ELSE news'[i] = news[i])
         /\ won'[i] = won[i]
         /\ sendLog'[i] = sendLog[i]
         /\ \A q \in Procs : ~Holds(q, i)']_vars

C36_Witness ==
  \E p, q \in Procs : \E s, r \in SignalIds :
    /\ Orphan(p, s) /\ q # p /\ r # s
    /\ signals[r].claimed_at > signals[s].claimed_at
    /\ cs[q].pc = "idle" /\ ~Holds(q, r)

C38_LedgerNeverDecreases ==
  [][\A c \in Types :
       publishLog[c] # NULL => publishLog'[c] # NULL /\ publishLog'[c] >= publishLog[c]]_vars

\* C39: within one loop consumer at most one tick executes at a time: no timer
\* of the process is pending while a tick runs, a tick starts only by using
\* up the one pending timer, and the next timer is set only by the step that
\* ends the tick, its batch and its news attempt behind it
C39_OneTickAtATime ==
  [][\A p \in Procs : kind[p] = "loop" =>
       /\ cs[p].pc # "idle" => cs[p].scheduled = 0
       /\ cs[p].scheduled <= 1
       /\ (cs[p].pc = "idle" /\ cs'[p].pc # "idle") =>
            cs[p].scheduled = 1 /\ cs'[p].scheduled = 0
       /\ cs'[p].scheduled > cs[p].scheduled =>
            /\ cs[p].pc # "idle" /\ cs'[p].pc = "idle"
            /\ cs'[p].batch = <<>> /\ cs'[p].newsItem = "none"
            /\ cs'[p].scheduled = 1]_vars

\* a tick that sent a signal and published the news item is over and the
\* next one is scheduled
C39_Witness ==
  \E p \in Procs :
    /\ kind[p] = "loop" /\ running[p] /\ ~faulted
    /\ cs[p].pc = "idle" /\ cs[p].scheduled = 1 /\ ticks = 1
    /\ \E s \in SignalIds : signals[s].status = "active"
    /\ \A n \in NewsIds : news[n].status = "published"

====
